---- MODULE Spec2Model ----
(***************************************************************************)
(* Model of open-dev-browser: the MCP entry point (src/src/index.ts), the  *)
(* tool dispatcher (src/src/tools.ts) and the client session               *)
(* (src/unnamed/part_000, the client module).                              *)
(*                                                                         *)
(* The browser server (server.js: serve, the named-page registry behind    *)
(* the Control API) and the snapshot / ref functions of the client         *)
(* (getAISnapshot, selectSnapshotRef, waitForPageLoad) are not among the   *)
(* sources; they are modelled from spec.md sections 3, 4 and 6.            *)
(***************************************************************************)
EXTENDS Integers, Sequences, FiniteSets, TLC

\* ------------------------------------------------------------------ bounds
MaxTargets == 2     \* target identities the browser hands out in one run
MaxElems == 1       \* elements of a page's document
NumRequests == 2    \* tool-call requests in flight in one MCP process
MaxServes == 2      \* serve() calls in the life of one MCP process
MaxTicks == 12      \* the latest external call of a handler that a fault can hit
MaxConnections == 3 \* the connections one client opens

\* ---------------------------------------------------------------- universe
DefaultAmount == 500
Names == {"default", "main"}
Undefined == "undefined"
NoTarget == 0
Null == 0
Targets == 1 .. MaxTargets
\* Two independent client sessions (two connect() results): the two callers
\* that the properties of the registry speak of.
Sessions == {1, 2}
Requests == 1 .. NumRequests
McpSession == 1
RefStr == <<"e1", "e2", "e3", "e4">>
Refs == {RefStr[i] : i \in 1 .. MaxElems + 1}
Urls == {"http://a"}
\* A document is blank or holds MaxElems elements.
Documents == {0, MaxElems}

VARIABLES
    registry,      \* server: sequence of [name, targetId], in creation order
    nextTarget,    \* browser: the next fresh target identity
    openPages,     \* browser: the target identities of the open pages
    elems,         \* browser: per target, the number of elements of its document
    snapshot,      \* per page name, the refMap of its current snapshot
    superseded,    \* per page name, the refMap of the snapshot before the current
    browser,       \* per client session, the `browser` variable of connect()
    call,          \* the tool call being served: phase, tool name, arguments
    last,          \* what handleToolCall did and gave back for it
    proc,          \* per client session, the client call it is in and where
    handedOut,     \* history: per name, the targetId POST /pages last answered
    closed,        \* history: the [name, targetId] entries DELETE has removed
    browserServer, \* index.ts: the server handle, or Null
    client,        \* index.ts: the client session, or Null
    playwrightChecked, \* index.ts: the install check has run
    servers,       \* per serve() call, in call order: what became of it
    connects,      \* the number of connect() calls so far
    req,           \* per CallTool request, where its handler is and its outcome
    signal,        \* the SIGINT / SIGTERM handler: where it is, and the server it stops
    connections,   \* shared client: the CDP connections it has opened, in order
    cached,        \* shared client: the connection its `browser` variable holds, 0 for null
    pageCall,      \* shared client: per concurrent page() call, where it is
    disconnectCall \* shared client: where its disconnect() call is

vars == <<registry, nextTarget, openPages, elems, snapshot, superseded, browser,
          call, last, proc, handedOut, closed,
          browserServer, client, playwrightChecked, servers, connects, req, signal,
          connections, cached, pageCall, disconnectCall>>

\* ------------------------------------------------------------- JS values
Falsy(v) == v \in {Undefined, ""}

\* A thrown value: an Error instance (message, and "Error: message" as its
\* string form) or any other value (no message property).
Err(msg) == [isError |-> TRUE, message |-> msg, str |-> <<"Error: ">> \o msg]
Thrown(v) == [isError |-> FALSE, message |-> <<Undefined>>, str |-> v]
NoErr == Err(<<>>)

\* What an awaited call gives back: the world after it, and either a value
\* or a thrown error.
Ok(w, v) == [w |-> w, threw |-> FALSE, err |-> NoErr, val |-> v]
Throw(w, e) == [w |-> w, threw |-> TRUE, err |-> e, val |-> Undefined]

\* const r = await call; rest(r): what the call throws leaves the function,
\* what it returns goes to the rest of the function.
Await(r, Rest(_)) == IF r.threw THEN r ELSE Rest(r)

\* Every call that leaves the process (HTTP, CDP, Playwright) is one tick;
\* fault f makes the f.at-th tick of a handler fail (f.at = 0: none does).
\* f.alt picks the other way a call can fail where there is one: an HTTP
\* response that is not ok instead of a rejected fetch, a thrown non-Error
\* value instead of an Error, no element instead of a thrown error.
Step(w) == [w EXCEPT !.ticks = @ + 1]
NoFault == [at |-> 0, alt |-> FALSE]

RECURSIVE SeqOfSet(_)
SeqOfSet(S) ==
    IF S = {} THEN <<>>
    ELSE LET m == CHOOSE x \in S : \A y \in S : x <= y
         IN <<m>> \o SeqOfSet(S \ {m})

\* ------------------------------------------- Page Registry (spec.md 4.1)
Entries(reg, name) == {i \in DOMAIN reg : reg[i].name = name}
Registered(reg, name) == Entries(reg, name) # {}
TargetOf(reg, name) ==
    LET i == CHOOSE k \in Entries(reg, name) : \A j \in Entries(reg, name) : k <= j
    IN reg[i].targetId

\* An identity taken from those no open page holds.
ReusedTargetId(w) == CHOOSE t \in Targets : t \notin w.openPages

\* A fresh page of the owned browser: the browser assigns the identity.
NewTargetId(w) == w.nextTarget

\* get-or-create that opens a page without looking the name up.
RegistryAlwaysCreate(w, name) ==
    LET t == w.nextTarget
    IN Ok([w EXCEPT !.registry = Append(@, [name |-> name, targetId |-> t]),
                    !.nextTarget = @ + 1,
                    !.openPages = @ \cup {t},
                    !.handedOut[name] = t],
          t)

\* POST /pages {name}: get-or-create, atomic on the server.
RegistryGetOrCreate(w, name) ==
    IF Registered(w.registry, name)
    THEN Ok([w EXCEPT !.handedOut[name] = TargetOf(w.registry, name)],
            TargetOf(w.registry, name))
    ELSE LET t == NewTargetId(w)
         IN Ok([w EXCEPT !.registry = Append(@, [name |-> name, targetId |-> t]),
                         !.nextTarget = @ + 1,
                         !.openPages = @ \cup {t},
                         !.elems[t] = 0,
                         !.handedOut[name] = t],
               t)

RECURSIVE Without(_, _)
Without(reg, name) ==
    IF reg = <<>> THEN <<>>
    ELSE IF Head(reg).name = name THEN Without(Tail(reg), name)
    ELSE <<Head(reg)>> \o Without(Tail(reg), name)

\* DELETE /pages/:name: 404 for an unknown name; otherwise the page is closed
\* and the entry removed, and with the page its snapshot is gone.
RegistryClose(w, name) ==
    IF ~Registered(w.registry, name)
    THEN [w |-> w, ok |-> FALSE]
    ELSE LET t == TargetOf(w.registry, name)
         IN [w |-> [w EXCEPT !.registry = Without(@, name),
                             !.openPages = @ \ {t},
                             !.elems[t] = 0,
                             !.snapshot[name] = <<>>,
                             !.superseded[name] = <<>>,
                             !.handedOut[name] = NoTarget,
                             !.closed = @ \cup {[name |-> name, targetId |-> t]}],
             ok |-> TRUE]

\* GET /pages: the names, in creation order.
RegistryList(w) == [i \in DOMAIN w.registry |-> w.registry[i].name]

\* --------------------------------------- client session (client module)
\* A cached connection is reused whenever there is one, dead or alive.
HealthyIfSet(conn) == conn # "null"

\* browser && browser.isConnected()
Healthy(conn) == conn = "connected"

\* ensureConnected: the cached connection if it reports connected, otherwise
\* GET / for the endpoint and connectOverCDP.
EnsureConnected(w, f) ==
    IF Healthy(w.conn)
    THEN Ok(w, w.conn)
    ELSE LET w1 == Step(w)
         IN IF w1.ticks = f.at THEN Throw(w1, Err(<<"fetch failed">>))
            ELSE LET w2 == Step(w1)
                 IN IF w2.ticks = f.at
                    THEN Throw(w2, Err(<<"connectOverCDP failed">>))
                    ELSE Ok([w2 EXCEPT !.conn = "connected"], "connected")

\* Target.getTargetInfo of a page: the identity the browser gave it.
TargetInfo(page) == page

\* findPageByTargetId without the comparison of identities.
RECURSIVE FindPageAnswering(_, _, _)
FindPageAnswering(pages, answering, targetId) ==
    IF pages = <<>> THEN NoTarget
    ELSE IF Head(pages) \in answering THEN Head(pages)
    ELSE FindPageAnswering(Tail(pages), answering, targetId)

\* findPageByTargetId: scan the pages the connection lists, in order; a page
\* whose CDP probe throws is skipped; the first whose identity matches wins.
RECURSIVE FindPageByTargetId(_, _, _)
FindPageByTargetId(pages, answering, targetId) ==
    IF pages = <<>> THEN NoTarget
    ELSE IF Head(pages) \in answering /\ TargetInfo(Head(pages)) = targetId
         THEN Head(pages)
         ELSE FindPageByTargetId(Tail(pages), answering, targetId)

\* await findPageByTargetId(b, targetId) on the pages the connection lists.
\* When the connection drops under the scan, isConnected() turns false, the
\* probes throw into the empty catch and no page is found.
Scan(w, targetId, f) ==
    IF w.ticks = f.at
    THEN Ok([w EXCEPT !.conn = "disconnected"], FindPageByTargetId(<<>>, {}, targetId))
    ELSE Ok(w, FindPageByTargetId(SeqOfSet(w.openPages), w.openPages, targetId))

\* `Page "${name}" not found in browser contexts`
NotFoundMessage(name) == <<"Page \"", name, "\" not found in browser contexts">>

\* client.page(name)
ClientPage(w, name, f) ==
    LET w1 == Step(w)
    IN IF w1.ticks = f.at /\ ~f.alt THEN Throw(w1, Err(<<"fetch failed">>))
       ELSE IF w1.ticks = f.at
       THEN Throw(w1, Err(<<"Failed to get page: ", "server error">>))
       ELSE
       Await(RegistryGetOrCreate(w1, name), LAMBDA g :
       Await(EnsureConnected(g.w, f), LAMBDA c :
       Await(Scan(Step(c.w), g.val, f), LAMBDA page :
       IF page.val = NoTarget
       THEN Throw(page.w, Err(NotFoundMessage(name)))
       ELSE page)))

\* client.list()
ClientList(w, f) ==
    LET w1 == Step(w)
    IN IF w1.ticks = f.at THEN Throw(w1, Err(<<"fetch failed">>))
       ELSE Ok(w1, RegistryList(w1))

\* client.close without the res.ok test.
ClientCloseUnchecked(w, name, f) ==
    LET w1 == Step(w)
    IN IF w1.ticks = f.at THEN Throw(w1, Err(<<"fetch failed">>))
       ELSE Ok(RegistryClose(w1, name).w, Undefined)

\* client.close(name)
ClientClose(w, name, f) ==
    LET w1 == Step(w)
    IN IF w1.ticks = f.at THEN Throw(w1, Err(<<"fetch failed">>))
       ELSE LET d == RegistryClose(w1, name)
            IN IF ~d.ok
               THEN Throw(d.w, Err(<<"Failed to close page: ", "not found">>))
               ELSE Ok(d.w, Undefined)

\* A disconnect that closes the pages of the browser with the connection.
ClientDisconnectClosing(w) ==
    [w EXCEPT !.conn = "null", !.openPages = {},
              !.elems = [t \in DOMAIN w.elems |-> 0]]

\* client.disconnect()
ClientDisconnect(w) ==
    IF w.conn # "null" THEN [w EXCEPT !.conn = "null"] ELSE w

\* ------------------- Snapshot Engine and Reference Resolver (spec.md 4.3, 4.4)
\* The refMap of a snapshot of a document of n elements: refs e1..en, given
\* in document order, each locating the element at its position.
RefMapOf(n) == [i \in 1 .. n |-> i]
SnapshotText(map) == [i \in DOMAIN map |-> RefStr[i]]
RefIndex(map, ref) == {i \in DOMAIN map : RefStr[i] = ref}

\* getAISnapshot(name): the page (created if absent), then a new current
\* snapshot of it, which supersedes the one before.
GetAISnapshot(w, name, f) ==
    Await(ClientPage(w, name, f), LAMBDA p :
    LET w1 == Step(p.w)
    IN IF w1.ticks = f.at THEN Throw(w1, Err(<<"snapshot failed">>))
       ELSE LET map == RefMapOf(w1.elems[p.val])
            IN Ok([w1 EXCEPT !.superseded[name] = w1.snapshot[name],
                             !.snapshot[name] = map],
                  SnapshotText(map)))

NoElement == [target |-> NoTarget, node |-> 0]

\* selectSnapshotRef(name, ref): look the ref up in the current snapshot of
\* the page; absent: StaleRefError (or no element: the caller tests for it);
\* present: re-locate the node in the live document, ElementDetachedError
\* when it is gone.
SelectSnapshotRef(w, name, ref, f) ==
    LET map == w.snapshot[name]
        idx == RefIndex(map, ref)
    IN IF idx = {}
       THEN IF f.alt THEN Ok(w, NoElement)
            ELSE Throw(w, Err(<<"StaleRefError: ", ref>>))
       ELSE
       Await(ClientPage(w, name, f), LAMBDA p :
       LET node == map[CHOOSE i \in idx : TRUE]
           w1 == Step(p.w)
       IN IF w1.ticks = f.at THEN Throw(w1, Err(<<"evaluate failed">>))
          ELSE IF node > w1.elems[p.val]
          THEN Throw(w1, Err(<<"ElementDetachedError: ", ref>>))
          ELSE Ok(w1, [target |-> p.val, node |-> node]))

\* waitForPageLoad(page)
WaitForPageLoad(w, f) ==
    LET w1 == Step(w)
    IN IF w1.ticks = f.at THEN Throw(w1, Err(<<"wait failed">>))
       ELSE Ok(w1, Undefined)

\* ----------------------------------- Playwright calls made by the tools
\* Each is one tick; an action on the document may leave a different
\* document behind (env.dom elements).
PageGoto(w, page, url, f, env) ==
    LET w1 == Step(w)
    IN IF w1.ticks = f.at THEN Throw(w1, Err(<<"goto failed">>))
       ELSE Ok([w1 EXCEPT !.elems[page] = env.dom], Undefined)

ElementClick(w, element, f, env) ==
    LET w1 == Step(w)
    IN IF w1.ticks = f.at \/ element = NoElement
       THEN Throw(w1, Err(<<"click failed">>))
       ELSE Ok([w1 EXCEPT !.elems[element.target] = env.dom], Undefined)

ElementFill(w, element, text, f) ==
    LET w1 == Step(w)
    IN IF w1.ticks = f.at \/ element = NoElement
       THEN Throw(w1, Err(<<"fill failed">>))
       ELSE Ok(w1, Undefined)

ElementType(w, element, text, f) ==
    LET w1 == Step(w)
    IN IF w1.ticks = f.at \/ element = NoElement
       THEN Throw(w1, Err(<<"type failed">>))
       ELSE Ok(w1, Undefined)

PageScreenshot(w, page, fullPage, f) ==
    LET w1 == Step(w)
    IN IF w1.ticks = f.at THEN Throw(w1, Err(<<"screenshot failed">>))
       ELSE Ok(w1, <<"png">>)

\* page.mouse.wheel(0, delta): the vertical deltas sent are kept as history.
MouseWheel(w, page, delta, f) ==
    LET w1 == Step(w)
    IN IF w1.ticks = f.at THEN Throw(w1, Err(<<"wheel failed">>))
       ELSE Ok([w1 EXCEPT !.wheel = Append(@, delta)], Undefined)

\* The scripts a caller sends, and the free names each of them uses.
Scripts == {"return 1", "return refs"}
NamesUsed(script) == IF script = "return refs" THEN {"refs"} ELSE {}

\* new AsyncFunction("page", script): the names bound in the script's scope.
ScriptScope == {"page"}

\* new AsyncFunction("page", script)(page): the script throws an Error or any
\* other value, or returns env.ret and leaves env.dom elements.
RunScript(w, page, script, f, env) ==
    LET w1 == Step(w)
    IN IF ~(NamesUsed(script) \subseteq ScriptScope)
       THEN Throw(w1, Err(<<"refs", " is not defined">>))
       ELSE IF w1.ticks = f.at /\ ~f.alt THEN Throw(w1, Err(<<"script failed">>))
       ELSE IF w1.ticks = f.at THEN Throw(w1, Thrown(<<"oops">>))
       ELSE Ok([w1 EXCEPT !.elems[page] = env.dom], env.ret)

\* --------------------------------------------- handleToolCall (tools.ts)
Log(w, op) == [w EXCEPT !.ops = Append(@, op)]
Text(t) == [type |-> "text", text |-> t]
Image(d) == [type |-> "image", data |-> d, mimeType |-> "image/png"]

\* A page name that falls back to another name.
PageNameMain(args) == IF Falsy(args.page) THEN "main" ELSE args.page

\* const pageName = (args?.page as string) || "default"
PageName(args) == IF Falsy(args.page) THEN "default" ELSE args.page

ToolSnapshot(w, pageName, f) ==
    Await(GetAISnapshot(Log(w, "getAISnapshot"), pageName, f), LAMBDA s :
    Ok(s.w, <<Text(s.val)>>))

\* browser_navigate that takes the snapshot before it navigates.
ToolNavigateSnapshotFirst(w, pageName, args, f, env) ==
    IF Falsy(args.url) THEN Throw(w, Err(<<"url is required">>))
    ELSE
    Await(GetAISnapshot(Log(w, "getAISnapshot"), pageName, f), LAMBDA s :
    Await(ClientPage(Log(s.w, "page"), pageName, f), LAMBDA p :
    Await(PageGoto(Log(p.w, "goto"), p.val, args.url, f, env), LAMBDA g :
    Await(WaitForPageLoad(Log(g.w, "waitForPageLoad"), f), LAMBDA l :
    Ok(l.w, <<Text(<<"Navigated to ", args.url, "\n\n">> \o s.val)>>)))))

ToolNavigate(w, pageName, args, f, env) ==
    IF Falsy(args.url) THEN Throw(w, Err(<<"url is required">>))
    ELSE
    Await(ClientPage(Log(w, "page"), pageName, f), LAMBDA p :
    Await(PageGoto(Log(p.w, "goto"), p.val, args.url, f, env), LAMBDA g :
    Await(WaitForPageLoad(Log(g.w, "waitForPageLoad"), f), LAMBDA l :
    Await(GetAISnapshot(Log(l.w, "getAISnapshot"), pageName, f), LAMBDA s :
    Ok(s.w, <<Text(<<"Navigated to ", args.url, "\n\n">> \o s.val)>>)))))

\* browser_click that goes on to click whatever the resolver gave back.
ToolClickUnchecked(w, pageName, args, f, env) ==
    Await(Ok(w, SelectSnapshotRef(Log(w, "selectSnapshotRef"), pageName, args.ref, f)),
          LAMBDA e :
    Await(ElementClick(Log(e.val.w, "click"),
                       IF e.val.threw THEN NoElement ELSE e.val.val, f, env),
          LAMBDA c :
    Ok(c.w, <<Text(<<"Clicked element [ref=", args.ref, "]\n\n">>)>>)))

ToolClick(w, pageName, args, f, env) ==
    IF Falsy(args.ref) THEN Throw(w, Err(<<"ref is required">>))
    ELSE
    Await(SelectSnapshotRef(Log(w, "selectSnapshotRef"), pageName, args.ref, f),
          LAMBDA e :
    IF e.val = NoElement
    THEN Throw(e.w, Err(<<"Element with ref \"", args.ref, "\" not found">>))
    ELSE
    Await(ElementClick(Log(e.w, "click"), e.val, f, env), LAMBDA c :
    Await(ClientPage(Log(c.w, "page"), pageName, f), LAMBDA p :
    Await(WaitForPageLoad(Log(p.w, "waitForPageLoad"), f), LAMBDA l :
    Await(GetAISnapshot(Log(l.w, "getAISnapshot"), pageName, f), LAMBDA s :
    Ok(s.w, <<Text(<<"Clicked element [ref=", args.ref, "]\n\n">> \o s.val)>>))))))

ToolType(w, pageName, args, f, env) ==
    IF Falsy(args.ref) THEN Throw(w, Err(<<"ref is required">>))
    ELSE IF Falsy(args.text) THEN Throw(w, Err(<<"text is required">>))
    ELSE
    Await(SelectSnapshotRef(Log(w, "selectSnapshotRef"), pageName, args.ref, f),
          LAMBDA e :
    IF e.val = NoElement
    THEN Throw(e.w, Err(<<"Element with ref \"", args.ref, "\" not found">>))
    ELSE
    Await(IF ~Falsy(args.clear)
          THEN ElementFill(Log(e.w, "fill"), e.val, args.text, f)
          ELSE ElementType(Log(e.w, "type"), e.val, args.text, f), LAMBDA t :
    Await(GetAISnapshot(Log(t.w, "getAISnapshot"), pageName, f), LAMBDA s :
    Ok(s.w, <<Text(<<"Typed \"", args.text, "\" into [ref=", args.ref,
                     "]\n\n">> \o s.val)>>))))

ToolScreenshot(w, pageName, args, f) ==
    Await(ClientPage(Log(w, "page"), pageName, f), LAMBDA p :
    Await(PageScreenshot(Log(p.w, "screenshot"), p.val, args.fullPage, f), LAMBDA b :
    Ok(b.w, <<Image(b.val)>>)))

\* An amount argument is <<>> when none is supplied, <<n>> for the number n.
\* const amount = (args?.amount as number) || 500
ScrollAmount(args) ==
    IF args.amount = <<>> \/ args.amount[1] = 0 THEN DefaultAmount ELSE args.amount[1]

\* const delta = direction === "down" ? amount : -amount
ScrollDelta(direction, amount) == IF direction = "down" THEN amount ELSE -amount

ToolScroll(w, pageName, args, f) ==
    IF Falsy(args.direction) THEN Throw(w, Err(<<"direction is required">>))
    ELSE
    Await(ClientPage(Log(w, "page"), pageName, f), LAMBDA p :
    Await(MouseWheel(Log(p.w, "wheel"), p.val,
                     ScrollDelta(args.direction, ScrollAmount(args)), f), LAMBDA m :
    Await(WaitForPageLoad(Log(m.w, "waitForPageLoad"), f), LAMBDA l :
    Await(GetAISnapshot(Log(l.w, "getAISnapshot"), pageName, f), LAMBDA s :
    Ok(s.w, <<Text(<<"Scrolled ", args.direction, " ", ToString(ScrollAmount(args)),
                     "px", "\n\n">> \o s.val)>>)))))

\* browser_run_script that resolves the page before it looks at the script.
ToolRunScriptPageFirst(w, pageName, args, f, env) ==
    Await(ClientPage(Log(w, "page"), pageName, f), LAMBDA p :
    IF Falsy(args.script) THEN Throw(p.w, Err(<<"script is required">>))
    ELSE
    Await(RunScript(Log(p.w, "script"), p.val, args.script, f, env), LAMBDA r :
    Ok(r.w, <<Text(IF r.val # Undefined THEN <<r.val>>
                   ELSE <<"Script executed successfully">>)>>)))

ToolRunScript(w, pageName, args, f, env) ==
    IF Falsy(args.script) THEN Throw(w, Err(<<"script is required">>))
    ELSE
    Await(ClientPage(Log(w, "page"), pageName, f), LAMBDA p :
    Await(RunScript(Log(p.w, "script"), p.val, args.script, f, env), LAMBDA r :
    Ok(r.w, <<Text(IF r.val # Undefined THEN <<r.val>>
                   ELSE <<"Script executed successfully">>)>>)))

\* browser_list_pages that resolves the default page before it lists.
ToolListPagesCreating(w, f) ==
    Await(ClientPage(Log(w, "page"), "default", f), LAMBDA p :
    Await(ClientList(Log(p.w, "list"), f), LAMBDA l :
    Ok(l.w, <<Text(IF Len(l.val) > 0 THEN <<"Open pages:">> \o l.val
                   ELSE <<"No pages open">>)>>)))

ToolListPages(w, f) ==
    Await(ClientList(Log(w, "list"), f), LAMBDA l :
    Ok(l.w, <<Text(IF Len(l.val) > 0 THEN <<"Open pages:">> \o l.val
                   ELSE <<"No pages open">>)>>))

\* browser_close_page that closes the page named "default".
ToolCloseDefault(w, args, f) ==
    IF Falsy(args.page) THEN Throw(w, Err(<<"page is required">>))
    ELSE
    Await(ClientClose(Log(w, "close"), "default", f), LAMBDA c :
    Ok(c.w, <<Text(<<"Closed page \"", args.page, "\"">>)>>))

ToolClosePage(w, args, f) ==
    IF Falsy(args.page) THEN Throw(w, Err(<<"page is required">>))
    ELSE
    Await(ClientClose(Log(w, "close"), args.page, f), LAMBDA c :
    Ok(c.w, <<Text(<<"Closed page \"", args.page, "\"">>)>>))

\* switch (name) { ... default: throw new Error(`Unknown tool: ${name}`) }
ToolSwitch(w, name, args, f, env) ==
    LET pageName == PageName(args) IN
    CASE name = "browser_snapshot" -> ToolSnapshot(w, pageName, f)
      [] name = "browser_navigate" -> ToolNavigate(w, pageName, args, f, env)
      [] name = "browser_click" -> ToolClick(w, pageName, args, f, env)
      [] name = "browser_type" -> ToolType(w, pageName, args, f, env)
      [] name = "browser_screenshot" -> ToolScreenshot(w, pageName, args, f)
      [] name = "browser_scroll" -> ToolScroll(w, pageName, args, f)
      [] name = "browser_run_script" -> ToolRunScript(w, pageName, args, f, env)
      [] name = "browser_list_pages" -> ToolListPages(w, f)
      [] name = "browser_close_page" -> ToolClosePage(w, args, f)
      [] OTHER -> Throw(w, Err(<<"Unknown tool: ", name>>))

\* error instanceof Error ? error.message : String(error)
MessageOf(e) == IF e.isError THEN e.message ELSE e.str

\* Settle with a catch that handles Error instances only.
SettleErrorsOnly(b) ==
    IF b.threw /\ ~b.err.isError
    THEN [status |-> "rejected", content |-> <<>>]
    ELSE IF b.threw
    THEN [status |-> "resolved", content |-> <<Text(<<"Error: ">> \o b.err.message)>>]
    ELSE [status |-> "resolved", content |-> b.val]

\* catch (error) { return { content: [{ type: "text", text: `Error: ...` }] } }
Settle(b) ==
    IF b.threw
    THEN [status |-> "resolved", content |-> <<Text(<<"Error: ">> \o MessageOf(b.err))>>]
    ELSE [status |-> "resolved", content |-> b.val]

\* try { switch ... } catch ...: what the call did, and its result.
Outcome(b) == [w |-> b.w, threw |-> b.threw, err |-> b.err, result |-> Settle(b)]

HandleToolCall(w, name, args, f, env) == Outcome(ToolSwitch(w, name, args, f, env))

\* ------------------------------------------------------ inputs of a call
ToolNames == {"browser_snapshot", "browser_navigate", "browser_click",
              "browser_type", "browser_screenshot", "browser_scroll",
              "browser_run_script", "browser_list_pages", "browser_close_page",
              "browser_unknown"}

\* The directions a caller sends (the schema lists "up" and "down"; the
\* handler receives whatever string arrives), and the amounts: none, 0, 100.
Directions == {"up", "down", "left"}
Amounts == {<<>>, <<0>>, <<100>>}

NoArgs == [page |-> Undefined, url |-> Undefined, ref |-> Undefined,
           text |-> Undefined, clear |-> Undefined, fullPage |-> Undefined,
           direction |-> Undefined, amount |-> <<>>, script |-> Undefined]
PageArgs == Names \cup {Undefined}
WithPage == {[NoArgs EXCEPT !.page = p] : p \in PageArgs}

ArgsFor(name) ==
    CASE name = "browser_navigate" ->
           {[a EXCEPT !.url = u] : a \in WithPage, u \in Urls \cup {Undefined}}
      [] name = "browser_click" ->
           {[a EXCEPT !.ref = r] : a \in WithPage, r \in Refs \cup {Undefined}}
      [] name = "browser_type" ->
           {[a EXCEPT !.ref = r, !.text = t, !.clear = c] :
               a \in WithPage, r \in Refs \cup {Undefined},
               t \in {"abc", Undefined}, c \in {"true", Undefined}}
      [] name = "browser_screenshot" ->
           {[a EXCEPT !.fullPage = b] : a \in WithPage, b \in {"true", Undefined}}
      [] name = "browser_scroll" ->
           {[a EXCEPT !.direction = d] :
               a \in WithPage, d \in Directions \cup {Undefined}}
           \cup {[NoArgs EXCEPT !.direction = d, !.amount = n] :
                    d \in Directions, n \in Amounts}
      [] name = "browser_run_script" ->
           {[a EXCEPT !.script = c] : a \in WithPage, c \in Scripts \cup {Undefined}}
      [] name \in {"browser_list_pages", "browser_unknown"} -> {NoArgs}
      [] OTHER -> WithPage

Faults == {NoFault} \cup [at : 1 .. MaxTicks, alt : BOOLEAN]

NoEnv == [dom |-> 0, ret |-> Undefined]
EnvFor(name) ==
    CASE name \in {"browser_navigate", "browser_click"} ->
           {[NoEnv EXCEPT !.dom = d] : d \in Documents}
      [] name = "browser_run_script" ->
           {[NoEnv EXCEPT !.dom = d, !.ret = r] :
               d \in Documents, r \in {"1", Undefined}}
      [] OTHER -> {NoEnv}

\* ------------------------------------------------------------ the state
World(s) ==
    [registry |-> registry, nextTarget |-> nextTarget, openPages |-> openPages,
     elems |-> elems, snapshot |-> snapshot, superseded |-> superseded,
     handedOut |-> handedOut, closed |-> closed,
     conn |-> browser[s], ticks |-> 0, ops |-> <<>>, wheel |-> <<>>]

Commit(w, s) ==
    /\ registry' = w.registry
    /\ nextTarget' = w.nextTarget
    /\ openPages' = w.openPages
    /\ elems' = w.elems
    /\ snapshot' = w.snapshot
    /\ superseded' = w.superseded
    /\ browser' = [browser EXCEPT ![s] = w.conn]
    /\ handedOut' = w.handedOut
    /\ closed' = w.closed

world == <<registry, nextTarget, openPages, elems, snapshot, superseded, browser,
           handedOut, closed>>

\* The browser has identities left for the page a call may create.
CanServe(name) == Registered(registry, name) \/ nextTarget <= MaxTargets

NoRes == [kind |-> "none", page |-> NoTarget, msg |-> <<>>]
\* attaches: history, the connectOverCDP calls the call in progress has made.
IdleProc == [pc |-> "idle", name |-> Undefined, targetId |-> NoTarget, res |-> NoRes,
             attaches |-> 0]

\* The state of the client whose page() calls run concurrently.
shared == <<connections, cached, pageCall, disconnectCall>>
PageCalls == {1, 2}
IdleCall == [pc |-> "idle", name |-> Undefined, targetId |-> NoTarget, b |-> 0,
             res |-> "none"]

\* The module-level state of index.ts.
index == <<browserServer, client, playwrightChecked, servers, connects, req, signal>>

NoSignal == [pc |-> "none", server |-> Null]

IdleReq == [pc |-> "idle", server |-> Null, browserClient |-> Null,
            status |-> "none", threw |-> FALSE]

Idle == [phase |-> "idle", tool |-> "none", args |-> NoArgs]
NoCall == [threw |-> FALSE, err |-> NoErr,
           result |-> [status |-> "none", content |-> <<>>], ops |-> <<>>,
           wheel |-> <<>>]

Init ==
    /\ registry = <<>>
    /\ nextTarget = 1
    /\ openPages = {}
    /\ elems = [t \in Targets |-> 0]
    /\ snapshot = [n \in Names |-> <<>>]
    /\ superseded = [n \in Names |-> <<>>]
    /\ browser = [s \in Sessions |-> "null"]
    /\ call = Idle
    /\ last = NoCall
    /\ proc = [s \in Sessions |-> IdleProc]
    /\ handedOut = [n \in Names |-> NoTarget]
    /\ closed = {}
    /\ browserServer = Null
    /\ client = Null
    /\ playwrightChecked = FALSE
    /\ servers = <<>>
    /\ connects = 0
    /\ req = [r \in Requests |-> IdleReq]
    /\ signal = NoSignal
    /\ connections = <<>>
    /\ cached = 0
    /\ pageCall = [k \in PageCalls |-> IdleCall]
    /\ disconnectCall = "idle"

\* A CallTool request arrives with a tool name and an argument record.
Receive(name, args) ==
    /\ call.phase = "idle"
    /\ CanServe(PageName(args))
    /\ call' = [phase |-> "pending", tool |-> name, args |-> args]
    /\ UNCHANGED <<world, last, proc>>
    /\ UNCHANGED index
    /\ UNCHANGED shared

\* handleToolCall runs on the request, from its first line to its result.
Handle(f, env) ==
    /\ call.phase = "pending"
    /\ CanServe(PageName(call.args))
    /\ LET Returned(r) ==
               /\ Commit(r.w, McpSession)
               /\ last' = [threw |-> r.threw, err |-> r.err, result |-> r.result,
                           ops |-> r.w.ops, wheel |-> r.w.wheel]
       IN Returned(HandleToolCall(World(McpSession), call.tool, call.args, f, env))
    /\ call' = [call EXCEPT !.phase = "done"]
    /\ UNCHANGED proc
    /\ UNCHANGED index
    /\ UNCHANGED shared

\* The transport has rendered the result; the process waits for a request.
Reply ==
    /\ call.phase = "done"
    /\ call' = Idle
    /\ last' = NoCall
    /\ UNCHANGED <<world, proc>>
    /\ UNCHANGED index
    /\ UNCHANGED shared

\* The user closes a tab of the headed browser: the page is gone, the
\* registry is not told.
PageClosedOutOfBand(t) ==
    /\ t \in openPages
    /\ openPages' = openPages \ {t}
    /\ elems' = [elems EXCEPT ![t] = 0]
    /\ UNCHANGED <<registry, nextTarget, snapshot, superseded, browser, call, last,
                   proc, handedOut, closed>>
    /\ UNCHANGED index
    /\ UNCHANGED shared

\* The CDP connection of a session drops: isConnected() turns false.
ConnectionDrop(s) ==
    /\ browser[s] = "connected"
    /\ browser' = [browser EXCEPT ![s] = "disconnected"]
    /\ UNCHANGED <<registry, nextTarget, openPages, elems, snapshot, superseded,
                   call, last, proc, handedOut, closed>>
    /\ UNCHANGED index
    /\ UNCHANGED shared

Next ==
    \/ \E name \in ToolNames : \E args \in ArgsFor(name) : Receive(name, args)
    \/ \E f \in Faults : \E env \in EnvFor(call.tool) : Handle(f, env)
    \/ Reply

Spec == Init /\ [][Next]_vars

\* ------------------------------------ client sessions, call by call
\* Each session runs one client call at a time; client.page is followed
\* through its awaits, so that the calls of different sessions interleave.
PageRes(t) == [kind |-> "page", page |-> t, msg |-> <<>>]
ErrRes(e) == [kind |-> "error", page |-> NoTarget, msg |-> e.message]
Finish(s, r) == [proc EXCEPT ![s].pc = "done", ![s].res = r]
PastPost(s) == proc[s].pc \in {"ensure", "attach", "scan"}
FirstTick == [at |-> 1, alt |-> FALSE]

\* client.page(name) is called.
StartPage(s, n) ==
    /\ proc[s].pc = "idle"
    /\ proc' = [proc EXCEPT ![s] = [IdleProc EXCEPT !.pc = "post", !.name = n]]
    /\ UNCHANGED <<world, call, last>>
    /\ UNCHANGED index
    /\ UNCHANGED shared

\* POST /pages is answered (or the fetch rejects, or the answer is not ok).
PagePost(s, fail) ==
    /\ proc[s].pc = "post"
    /\ CanServe(proc[s].name)
    /\ IF fail = "reject"
       THEN /\ proc' = Finish(s, ErrRes(Err(<<"fetch failed">>)))
            /\ UNCHANGED world
       ELSE IF fail = "status"
       THEN /\ proc' = Finish(s, ErrRes(Err(<<"Failed to get page: ", "server error">>)))
            /\ UNCHANGED world
       ELSE LET g == RegistryGetOrCreate(World(s), proc[s].name)
            IN /\ Commit(g.w, s)
               /\ proc' = [proc EXCEPT ![s].pc = "ensure", ![s].targetId = g.val]
    /\ UNCHANGED <<call, last>>
    /\ UNCHANGED index
    /\ UNCHANGED shared

\* ensureConnected, to its first await: the cached connection, or GET /.
PageEnsure(s, fail) ==
    /\ proc[s].pc = "ensure"
    /\ proc' = IF Healthy(browser[s]) THEN [proc EXCEPT ![s].pc = "scan"]
               ELSE IF fail THEN Finish(s, ErrRes(Err(<<"fetch failed">>)))
               ELSE [proc EXCEPT ![s].pc = "attach"]
    /\ UNCHANGED <<world, call, last>>
    /\ UNCHANGED index
    /\ UNCHANGED shared

\* ensureConnected, second await: connectOverCDP and the assignment to browser.
PageAttach(s, fail) ==
    /\ proc[s].pc = "attach"
    /\ IF fail
       THEN /\ proc' = [Finish(s, ErrRes(Err(<<"connectOverCDP failed">>)))
                           EXCEPT ![s].attaches = @ + 1]
            /\ UNCHANGED browser
       ELSE /\ proc' = [proc EXCEPT ![s].pc = "scan", ![s].attaches = @ + 1]
            /\ browser' = [browser EXCEPT ![s] = "connected"]
    /\ UNCHANGED <<registry, nextTarget, openPages, elems, snapshot, superseded,
                   handedOut, closed, call, last>>
    /\ UNCHANGED index
    /\ UNCHANGED shared

\* findPageByTargetId over the pages the connection lists (none once it has
\* dropped); the probe of page x throws; then page() returns or throws.
PageScan(s, x) ==
    /\ proc[s].pc = "scan"
    /\ LET listed == IF browser[s] = "connected" THEN openPages ELSE {}
           page == FindPageByTargetId(SeqOfSet(listed), listed \ {x},
                                      proc[s].targetId)
       IN proc' = Finish(s, IF page = NoTarget
                            THEN ErrRes(Err(NotFoundMessage(proc[s].name)))
                            ELSE PageRes(page))
    /\ UNCHANGED <<world, call, last>>
    /\ UNCHANGED index
    /\ UNCHANGED shared

\* The caller has the outcome of its call.
Return(s) ==
    /\ proc[s].pc = "done"
    /\ proc' = [proc EXCEPT ![s] = IdleProc]
    /\ UNCHANGED <<world, call, last>>
    /\ UNCHANGED index
    /\ UNCHANGED shared

\* client.close(name), from call to outcome.
Close(s, n, f) ==
    /\ proc[s].pc = "idle"
    /\ LET r == ClientClose(World(s), n, f)
       IN /\ Commit(r.w, s)
          /\ proc' = [proc EXCEPT ![s] =
                        [IdleProc EXCEPT !.pc = "done", !.name = n,
                           !.res = IF r.threw THEN ErrRes(r.err)
                                   ELSE [NoRes EXCEPT !.kind = "closed"]]]
    /\ UNCHANGED <<call, last>>
    /\ UNCHANGED index
    /\ UNCHANGED shared

\* client.list(), from call to outcome.
List(s, f) ==
    /\ proc[s].pc = "idle"
    /\ LET r == ClientList(World(s), f)
       IN /\ Commit(r.w, s)
          /\ proc' = Finish(s, IF r.threw THEN ErrRes(r.err)
                               ELSE [NoRes EXCEPT !.kind = "list", !.msg = r.val])
    /\ UNCHANGED <<call, last>>
    /\ UNCHANGED index
    /\ UNCHANGED shared

\* client.disconnect(), called between the calls of the session or by a
\* caller that holds the outcome of its last call.
Disconnect(s) ==
    /\ proc[s].pc \in {"idle", "done"}
    /\ Commit(ClientDisconnect(World(s)), s)
    /\ UNCHANGED <<call, last, proc>>
    /\ UNCHANGED index
    /\ UNCHANGED shared

\* The caller navigates the page its page() call returned: page.goto(url),
\* which leaves a document of d elements.
Goto(s, u, d) ==
    /\ proc[s].pc = "done"
    /\ proc[s].res.kind = "page"
    /\ proc[s].res.page \in openPages
    /\ browser[s] = "connected"
    /\ Commit(PageGoto(World(s), proc[s].res.page, u, NoFault,
                       [NoEnv EXCEPT !.dom = d]).w, s)
    /\ UNCHANGED <<call, last, proc>>
    /\ UNCHANGED index
    /\ UNCHANGED shared

NextClient ==
    \/ \E s \in Sessions : \E u \in Urls : \E d \in Documents : Goto(s, u, d)
    \/ \E s \in Sessions : \E n \in Names : StartPage(s, n)
    \/ \E s \in Sessions : \E fail \in {"none", "reject", "status"} : PagePost(s, fail)
    \/ \E s \in Sessions : \E fail \in BOOLEAN : PageEnsure(s, fail)
    \/ \E s \in Sessions : \E fail \in BOOLEAN : PageAttach(s, fail)
    \/ \E s \in Sessions : \E x \in Targets \cup {NoTarget} : PageScan(s, x)
    \/ \E s \in Sessions : Return(s)
    \/ \E s \in Sessions : \E n \in Names : \E f \in {NoFault, FirstTick} : Close(s, n, f)
    \/ \E s \in Sessions : \E f \in {NoFault, FirstTick} : List(s, f)
    \/ \E s \in Sessions : Disconnect(s)
    \/ \E t \in Targets : PageClosedOutOfBand(t)
    \/ \E s \in Sessions : ConnectionDrop(s)

SpecClient == Init /\ [][NextClient]_vars

\* ------------------------------------------ the MCP process (index.ts)
\* Each CallTool request runs the handler of index.ts: ensureServerAndClient,
\* followed through its awaits so that the handlers of concurrent requests
\* interleave, then handleToolCall.
McpCalls == {<<"browser_snapshot", NoArgs>>,
             <<"browser_close_page", [NoArgs EXCEPT !.page = "default"]>>,
             <<"browser_unknown", NoArgs>>}

\* ensurePlaywrightInstalled: the flag is set on the first call; what the
\* check and the install do is logged and never thrown.
EnsurePlaywrightInstalled(checked) == TRUE

\* serve() is called: one more browser server is starting.
ServeStarted(ss) == Append(ss, "starting")
ServesInProgressOrSucceeded(ss) == {k \in DOMAIN ss : ss[k] \in {"starting", "running"}}

\* ensureServerAndClient from `if (!client)`: connect() is called and awaited,
\* or the client there is is returned.
ClientStep(r, rq) ==
    IF client = Null
    THEN /\ connects < Cardinality(Sessions)
         /\ connects' = connects + 1
         /\ req' = [rq EXCEPT ![r].pc = "connect", ![r].browserClient = connects + 1]
    ELSE /\ connects' = connects
         /\ req' = [rq EXCEPT ![r].pc = "handle", ![r].browserClient = client]

\* The process has not exited.
Alive == signal.pc # "exited"

\* A request arrives; its handler runs ensureServerAndClient to its first await.
Arrive(r) ==
    /\ Alive
    /\ req[r].pc = "idle"
    /\ IF browserServer = Null
       THEN /\ Len(servers) < MaxServes
            /\ playwrightChecked' = EnsurePlaywrightInstalled(playwrightChecked)
            /\ servers' = ServeStarted(servers)
            /\ req' = [req EXCEPT ![r].pc = "serve", ![r].server = Len(servers) + 1]
            /\ UNCHANGED connects
       ELSE /\ ClientStep(r, req)
            /\ UNCHANGED <<playwrightChecked, servers>>
    /\ UNCHANGED <<world, call, last, proc, browserServer, client>>
    /\ UNCHANGED signal
    /\ UNCHANGED shared

\* The serve() a handler awaits settles: resolved, the handle is assigned to
\* browserServer and the handler goes on to the client; rejected, the
\* rejection leaves ensureServerAndClient and the handler.
ServeSettles(r, ok) ==
    /\ Alive
    /\ req[r].pc = "serve"
    /\ IF ok
       THEN /\ servers' = [servers EXCEPT ![req[r].server] = "running"]
            /\ browserServer' = req[r].server
            /\ ClientStep(r, req)
       ELSE /\ servers' = [servers EXCEPT ![req[r].server] = "failed"]
            /\ req' = [req EXCEPT ![r].pc = "done", ![r].status = "rejected"]
            /\ UNCHANGED <<browserServer, connects>>
    /\ UNCHANGED <<world, call, last, proc, client, playwrightChecked>>
    /\ UNCHANGED signal
    /\ UNCHANGED shared

\* The connect() a handler awaits resolves: client is assigned and returned.
ConnectSettles(r) ==
    /\ Alive
    /\ req[r].pc = "connect"
    /\ client' = req[r].browserClient
    /\ req' = [req EXCEPT ![r].pc = "handle"]
    /\ UNCHANGED <<world, call, last, proc, browserServer, playwrightChecked,
                   servers, connects>>
    /\ UNCHANGED signal
    /\ UNCHANGED shared

\* handleToolCall(name, args, browserClient, browserServer) and its result.
HandleCall(r, c, f) ==
    /\ Alive
    /\ req[r].pc = "handle"
    /\ CanServe(PageName(c[2]))
    /\ LET Returned(h) ==
               /\ Commit(h.w, req[r].browserClient)
               /\ req' = [req EXCEPT ![r].pc = "done", ![r].status = h.result.status,
                                     ![r].threw = h.threw]
       IN Returned(HandleToolCall(World(req[r].browserClient), c[1], c[2], f, NoEnv))
    /\ UNCHANGED <<call, last, proc, browserServer, client, playwrightChecked,
                   servers, connects>>
    /\ UNCHANGED signal
    /\ UNCHANGED shared

\* The transport has sent the response of the request.
Respond(r) ==
    /\ Alive
    /\ req[r].pc = "done"
    /\ req' = [req EXCEPT ![r] = IdleReq]
    /\ UNCHANGED <<world, call, last, proc, browserServer, client,
                   playwrightChecked, servers, connects>>
    /\ UNCHANGED signal
    /\ UNCHANGED shared

\* browserServer.stop(): the server and its browser are shut down, and with
\* them the pages and the registry.
ServerStop(ss, k) == [ss EXCEPT ![k] = "stopped"]

\* cleanup() from `if (browserServer)`: stop() is called and awaited, or
\* cleanup returns and the handler calls process.exit(0).
StopStep ==
    IF browserServer # Null
    THEN [pc |-> "stop", server |-> browserServer]
    ELSE [pc |-> "exited", server |-> Null]

\* SIGINT or SIGTERM: the handler runs cleanup() to its first await.
Signal ==
    /\ signal.pc = "none"
    /\ signal' = IF client # Null THEN [pc |-> "disconnect", server |-> Null]
                  ELSE StopStep
    /\ UNCHANGED <<world, call, last, proc, browserServer, client, playwrightChecked,
                   servers, connects, req>>
    /\ UNCHANGED shared

\* The client.disconnect() that cleanup awaits returns.
CleanupDisconnected ==
    /\ signal.pc = "disconnect"
    /\ Commit(ClientDisconnect(World(client)), client)
    /\ signal' = StopStep
    /\ UNCHANGED <<call, last, proc, browserServer, client, playwrightChecked,
                   servers, connects, req>>
    /\ UNCHANGED shared

\* The stop() that cleanup awaits settles: resolved, the handler exits the
\* process; rejected, the rejection leaves the handler and nothing exits.
CleanupStopped(ok) ==
    /\ signal.pc = "stop"
    /\ IF ok
       THEN /\ servers' = ServerStop(servers, signal.server)
            /\ signal' = [signal EXCEPT !.pc = "exited"]
            /\ registry' = <<>>
            /\ openPages' = {}
            /\ elems' = [t \in Targets |-> 0]
            /\ snapshot' = [n \in Names |-> <<>>]
            /\ superseded' = [n \in Names |-> <<>>]
            /\ browser' = [s \in Sessions |->
                             IF browser[s] = "connected" THEN "disconnected"
                             ELSE browser[s]]
            /\ UNCHANGED <<nextTarget, handedOut, closed>>
       ELSE /\ signal' = [signal EXCEPT !.pc = "rejected"]
            /\ UNCHANGED <<world, servers>>
    /\ UNCHANGED <<call, last, proc, browserServer, client, playwrightChecked,
                   connects, req>>
    /\ UNCHANGED shared

NextMcp ==
    \/ Signal
    \/ CleanupDisconnected
    \/ \E ok \in BOOLEAN : CleanupStopped(ok)
    \/ \E r \in Requests : Arrive(r)
    \/ \E r \in Requests : \E ok \in BOOLEAN : ServeSettles(r, ok)
    \/ \E r \in Requests : ConnectSettles(r)
    \/ \E r \in Requests : \E c \in McpCalls : \E f \in {NoFault, FirstTick} :
          HandleCall(r, c, f)
    \/ \E r \in Requests : Respond(r)

SpecMcp == Init /\ [][NextMcp]_vars

\* ------------------------- one client, concurrent page() calls (client module)
\* The page() calls of one client run concurrently: each is followed through
\* its awaits, and all of them read and write the one `browser` variable of
\* connect(). A connection is open, closed by the client, or dropped.
Live == {i \in DOMAIN connections : connections[i] = "open"}

\* page(name) is called: POST /pages is sent.
CallPage(k, n) ==
    /\ pageCall[k].pc = "idle"
    /\ CanServe(n)
    /\ pageCall' = [pageCall EXCEPT ![k] = [IdleCall EXCEPT !.pc = "post", !.name = n]]
    /\ UNCHANGED <<world, call, last, proc, connections, cached, disconnectCall>>
    /\ UNCHANGED index

\* POST /pages settles; answered, ensureConnected runs to its first await:
\* `if (browser && browser.isConnected()) return browser`, else the fetch.
PostSettles(k, ok) ==
    /\ pageCall[k].pc = "post"
    /\ IF ok
       THEN /\ CanServe(pageCall[k].name)
            /\ LET g == RegistryGetOrCreate(World(McpSession), pageCall[k].name)
               IN /\ Commit(g.w, McpSession)
                  /\ pageCall' =
                       IF cached # 0 /\ connections[cached] = "open"
                       THEN [pageCall EXCEPT ![k].pc = "scan", ![k].targetId = g.val,
                                             ![k].b = cached]
                       ELSE [pageCall EXCEPT ![k].pc = "fetch", ![k].targetId = g.val]
       ELSE /\ pageCall' = [pageCall EXCEPT ![k] = [IdleCall EXCEPT !.res = "error"]]
            /\ UNCHANGED world
    /\ UNCHANGED <<call, last, proc, connections, cached, disconnectCall>>
    /\ UNCHANGED index

\* The fetch of the wsEndpoint settles; answered, connectOverCDP is called.
FetchSettles(k, ok) ==
    /\ pageCall[k].pc = "fetch"
    /\ pageCall' = IF ok THEN [pageCall EXCEPT ![k].pc = "connect"]
                   ELSE [pageCall EXCEPT ![k] = [IdleCall EXCEPT !.res = "error"]]
    /\ UNCHANGED <<world, call, last, proc, connections, cached, disconnectCall>>
    /\ UNCHANGED index

\* connectOverCDP settles: `browser = await chromium.connectOverCDP(...)`
\* assigns the new connection over whatever the variable holds.
AttachSettles(k, ok) ==
    /\ pageCall[k].pc = "connect"
    /\ IF ok
       THEN /\ Len(connections) < MaxConnections
            /\ connections' = Append(connections, "open")
            /\ cached' = Len(connections) + 1
            /\ pageCall' = [pageCall EXCEPT ![k].pc = "scan",
                                            ![k].b = Len(connections) + 1]
       ELSE /\ pageCall' = [pageCall EXCEPT ![k] = [IdleCall EXCEPT !.res = "error"]]
            /\ UNCHANGED <<connections, cached>>
    /\ UNCHANGED <<world, call, last, proc, disconnectCall>>
    /\ UNCHANGED index

\* findPageByTargetId(b, targetId) settles: the page, or not found.
ScanSettles(k) ==
    /\ pageCall[k].pc = "scan"
    /\ LET pages == IF connections[pageCall[k].b] = "open" THEN openPages ELSE {}
           page == FindPageByTargetId(SeqOfSet(pages), pages, pageCall[k].targetId)
       IN pageCall' = [pageCall EXCEPT ![k] =
                         [IdleCall EXCEPT !.res = IF page = NoTarget THEN "not found"
                                                  ELSE "page"]]
    /\ UNCHANGED <<world, call, last, proc, connections, cached, disconnectCall>>
    /\ UNCHANGED index

\* disconnect() is called with a connection held: browser.close() is called
\* and awaited. (With `browser` null the call does nothing.)
DisconnectCloses ==
    /\ disconnectCall = "idle"
    /\ cached # 0
    /\ connections' = [connections EXCEPT ![cached] = "closed"]
    /\ disconnectCall' = "closing"
    /\ UNCHANGED <<world, call, last, proc, cached, pageCall>>
    /\ UNCHANGED index

\* browser.close() has returned: `browser = null`.
DisconnectReturns ==
    /\ disconnectCall = "closing"
    /\ cached' = 0
    /\ disconnectCall' = "idle"
    /\ UNCHANGED <<world, call, last, proc, connections, pageCall>>
    /\ UNCHANGED index

\* A connection drops: its isConnected() turns false.
Drops(i) ==
    /\ i \in Live
    /\ connections' = [connections EXCEPT ![i] = "dropped"]
    /\ UNCHANGED <<world, call, last, proc, cached, pageCall, disconnectCall>>
    /\ UNCHANGED index

NextShared ==
    \/ \E k \in PageCalls : \E n \in Names : CallPage(k, n)
    \/ \E k \in PageCalls : \E ok \in BOOLEAN : PostSettles(k, ok)
    \/ \E k \in PageCalls : \E ok \in BOOLEAN : FetchSettles(k, ok)
    \/ \E k \in PageCalls : \E ok \in BOOLEAN : AttachSettles(k, ok)
    \/ \E k \in PageCalls : ScanSettles(k)
    \/ DisconnectCloses
    \/ DisconnectReturns
    \/ \E i \in 1 .. MaxConnections : Drops(i)

SpecShared == Init /\ [][NextShared]_vars

\* ================================================================ claims
Done == call.phase = "done"
Handled == call.phase = "pending" /\ call'.phase = "done"
ErrorContent(e) == <<Text(<<"Error: ">> \o (IF e.isError THEN e.message ELSE e.str))>>
ElementOps == {"click", "fill", "type"}
OpsOf(l) == {l.ops[i] : i \in DOMAIN l.ops}

\* C1: whatever the tool name, the arguments and the failure raised during the
\* call, handleToolCall resolves to a content result and never rejects; after
\* a failure the content is one text item carrying the error's message.
C1_NeverRejects ==
    Done => /\ last.result.status = "resolved"
            /\ last.threw => last.result.content = ErrorContent(last.err)
            /\ ~last.threw => Len(last.result.content) = 1

C1_Witness ==
    /\ Done /\ call.tool = "browser_run_script"
    /\ last.threw /\ ~last.err.isError
    /\ last.result.content = <<Text(<<"Error: ", "oops">>)>>

\* C7: closing a name that is not in the registry fails: client.close rejects,
\* browser_close_page answers with an error text and not with 'Closed page',
\* and the registered pages are what they were.
C7_CloseUnknownFails ==
    [][(/\ Handled
        /\ call.tool = "browser_close_page"
        /\ ~Falsy(call.args.page)
        /\ ~Registered(registry, call.args.page))
       => (/\ last'.threw
           /\ last'.result.content = ErrorContent(last'.err)
           /\ last'.result.content[1].text[1] = "Error: "
           /\ registry' = registry
           /\ openPages' = openPages)]_vars

C7_Witness ==
    /\ Done /\ call.tool = "browser_close_page"
    /\ last.result.content =
         <<Text(<<"Error: ", "Failed to close page: ", "not found">>)>>
    /\ registry # <<>>

\* C8: a ref issued by snapshot k of a page does not resolve once snapshot k+1
\* of that page exists: browser_click and browser_type given a ref of the
\* superseded snapshot act on no element and fail.
C8_SupersededRefFails ==
    [][(/\ Handled
        /\ call.tool \in {"browser_click", "browser_type"}
        /\ RefIndex(superseded[PageName(call.args)], call.args.ref) # {})
       => (last'.threw /\ OpsOf(last') \cap ElementOps = {})]_vars

\* C9: a ref that is not in the page's current snapshot never yields an element
\* handle: browser_click and browser_type given such a ref click, fill and
\* type nothing and answer with an error.
C9_UnknownRefNoHandle ==
    [][(/\ Handled
        /\ call.tool \in {"browser_click", "browser_type"}
        /\ RefIndex(snapshot[PageName(call.args)], call.args.ref) = {})
       => (/\ last'.threw
           /\ OpsOf(last') \cap ElementOps = {}
           /\ last'.result.content = ErrorContent(last'.err))]_vars

C9_Witness ==
    /\ Done /\ call.tool = "browser_click"
    /\ snapshot[PageName(call.args)] # <<>>
    /\ last.result.content =
         <<Text(<<"Error: ", "Element with ref \"", RefStr[MaxElems + 1],
                  "\" not found">>)>>

RegisteredTargets == {registry[i].targetId : i \in DOMAIN registry}
ClosedTargets == {c.targetId : c \in closed}
Posted(s) == proc[s].pc = "post" /\ proc'[s].pc = "ensure"
Scanned(s) == proc[s].pc = "scan" /\ proc'[s].pc = "done"

\* C4: a get-or-create of name n that follows another one, no close(n) in
\* between, from whichever session, obtains the same targetId, and the
\* registry holds exactly one entry for n.
C4_SequentialSameTarget ==
    [][\A s \in Sessions :
         (Posted(s) /\ handedOut[proc[s].name] # NoTarget)
         => (/\ proc'[s].targetId = handedOut[proc[s].name]
             /\ Cardinality(Entries(registry', proc[s].name)) = 1)]_vars

C4_Witness ==
    \E s, q \in Sessions :
       /\ s # q
       /\ proc[s].pc = "done" /\ proc[q].pc = "done"
       /\ proc[s].res.kind = "page" /\ proc[q].res.kind = "page"
       /\ proc[s].name = proc[q].name
       /\ proc[s].res.page = proc[q].res.page
       /\ Cardinality(Entries(registry, proc[s].name)) = 1

\* C5: two get-or-create requests for one name that are in flight at the same
\* time, from two sessions, make one underlying page: both hold the same
\* targetId, list() has the name once and no page is open outside the registry
\* (two different targetIds only when the name was closed in between).
C5_ConcurrentOnePage ==
    \A s, q \in Sessions :
       (s # q /\ PastPost(s) /\ PastPost(q) /\ proc[s].name = proc[q].name)
       => LET n == proc[s].name
              shut == {proc[s].targetId, proc[q].targetId}
                        \cap {c.targetId : c \in {d \in closed : d.name = n}}
          IN /\ proc[s].targetId # proc[q].targetId => shut # {}
             /\ shut = {} => /\ Cardinality(Entries(registry, n)) = 1
                             /\ openPages \subseteq RegisteredTargets

C5_Witness ==
    /\ PastPost(1) /\ PastPost(2)
    /\ proc[1].name = "main" /\ proc[2].name = "main"
    /\ proc[1].targetId = proc[2].targetId
    /\ nextTarget = 2
    /\ registry = <<[name |-> "main", targetId |-> 1]>>

\* C6: a targetId that close() has closed is never handed out again: a
\* get-or-create after close(n) obtains a targetId that no closed entry had,
\* so not the one n had before, and page() returns no closed page.
C6_ClosedTargetNotReused ==
    [][\A s \in Sessions :
         /\ Posted(s) => proc'[s].targetId \notin ClosedTargets
         /\ (Scanned(s) /\ proc'[s].res.kind = "page")
              => proc'[s].res.page \notin ClosedTargets]_vars

C6_Witness ==
    \E s \in Sessions :
       /\ proc[s].pc = "done" /\ proc[s].res.kind = "page"
       /\ \E c \in closed : c.name = proc[s].name /\ c.targetId # proc[s].res.page

\* C10: client.page(name) returns a page that is open and whose target
\* identity is the targetId the registry answered, or it fails; when no open
\* page has that identity it fails and returns no other page.
C10_PageMatchesTarget ==
    [][\A s \in Sessions :
         Scanned(s)
         => /\ proc'[s].res.kind = "page"
                 => /\ TargetInfo(proc'[s].res.page) = proc[s].targetId
                    /\ proc'[s].res.page \in openPages
            /\ proc[s].targetId \notin openPages => proc'[s].res.kind = "error"]_vars

C10_Witness ==
    \E s \in Sessions :
       /\ proc[s].pc = "done" /\ proc[s].res.kind = "error"
       /\ proc[s].res.msg = <<"Page \"", proc[s].name, "\" not found in browser contexts">>
       /\ Registered(registry, proc[s].name)
       /\ TargetOf(registry, proc[s].name) = proc[s].targetId
       /\ proc[s].targetId \notin openPages
       /\ openPages # {}
       /\ browser[s] = "connected"

\* C2: every failure while a tool-call request is served, one of the lazy
\* start-up included, comes back as a result: no handler of a request rejects.
C2_StartupFailureIsResult ==
    \A r \in Requests : req[r].pc = "done" => req[r].status = "resolved"

\* C3: the browser server is launched at most once: at no time is more than
\* one serve() call in progress or succeeded.
C3_ServeAtMostOnce == Cardinality(ServesInProgressOrSucceeded(servers)) <= 1

\* C11: ensureConnected hands back the cached connection, with no request to
\* the server, whenever that connection reports connected; otherwise it
\* fetches the endpoint (GET /) and attaches, and the attach leaves the
\* session with a live connection: a page() after a connection loss
\* re-attaches.
C11_CachedOrReattach ==
    [][\A s \in Sessions :
         /\ (proc[s].pc = "ensure" /\ proc'[s].pc # "ensure")
              => IF browser[s] = "connected"
                 THEN /\ proc'[s].pc = "scan"
                      /\ EnsureConnected(World(s), NoFault) = Ok(World(s), "connected")
                 ELSE /\ proc'[s].pc \in {"attach", "done"}
                      /\ proc'[s].pc = "done" => proc'[s].res.kind = "error"
                      /\ EnsureConnected(World(s), NoFault).w.ticks = 2
                      /\ EnsureConnected(World(s), NoFault).w.conn = "connected"
         /\ (proc[s].pc = "attach" /\ proc'[s].pc = "scan")
              => browser'[s] = "connected"]_vars

C11_Witness ==
    \E s \in Sessions :
       /\ proc[s].pc = "scan"
       /\ browser[s] = "connected"
       /\ \E q \in Sessions : q # s /\ proc[q].pc = "attach" /\ browser[q] = "disconnected"

\* C12: an attach (connectOverCDP) that fails is retried once inside the
\* call: a page() call ends with the attach error only after it has made a
\* second attach.
C12_AttachRetriedOnce ==
    [][\A s \in Sessions :
         (proc[s].pc = "attach" /\ proc'[s].pc = "done")
         => proc'[s].attaches = 2]_vars

\* C13: a resolution whose connection has dropped by the time it scans the
\* open pages fails, and with an error that is not the 'page not found' one.
C13_DropIsNotNotFound ==
    [][\A s \in Sessions :
         (Scanned(s) /\ browser[s] = "disconnected")
         => /\ proc'[s].res.kind = "error"
            /\ proc'[s].res.msg # NotFoundMessage(proc[s].name)]_vars

\* The state a call of session s starts from once the step has been taken.
WorldNext(s) ==
    [registry |-> registry', nextTarget |-> nextTarget', openPages |-> openPages',
     elems |-> elems', snapshot |-> snapshot', superseded |-> superseded',
     handedOut |-> handedOut', closed |-> closed',
     conn |-> browser'[s], ticks |-> 0, ops |-> <<>>, wheel |-> <<>>]

Disconnecting(s) == browser[s] # "null" /\ browser'[s] = "null"

\* C14: client.disconnect() changes the connection of its own session and
\* nothing else: registry, open pages and the document each page shows (what
\* the last navigation left) are as before, so a page() for a registered name
\* made after it, by any session, returns the page with the targetId the name
\* had, showing the same document.
C14_DisconnectKeepsPages ==
    [][\A s \in Sessions :
         Disconnecting(s)
         => /\ registry' = registry /\ openPages' = openPages /\ elems' = elems
            /\ snapshot' = snapshot /\ nextTarget' = nextTarget
            /\ \A q \in Sessions \ {s} : browser'[q] = browser[q]
            /\ \A q \in Sessions : \A n \in Names :
                 (Registered(registry, n) /\ TargetOf(registry, n) \in openPages)
                 => /\ ClientPage(WorldNext(q), n, NoFault).val = TargetOf(registry, n)
                    /\ ClientPage(WorldNext(q), n, NoFault).w.elems = elems]_vars

C14_Witness ==
    \E s \in Sessions : \E n \in Names :
       /\ Registered(registry, n)
       /\ browser[s] = "null"
       /\ proc[s].pc = "done" /\ proc[s].res = PageRes(TargetOf(registry, n))
       /\ proc[s].name = n /\ proc[s].attaches = 1
       /\ TargetOf(registry, n) \in openPages
       /\ elems[TargetOf(registry, n)] = MaxElems

\* C15: when the signal handler has exited the process, every browser server
\* that a serve() call started, or was still starting, has been stopped.
C15_ExitStopsEveryServer ==
    signal.pc = "exited"
    => \A k \in DOMAIN servers : servers[k] \in {"stopped", "failed"}

\* The tools whose schema gives `page` the default "default".
DefaultingTools == {"browser_snapshot", "browser_navigate", "browser_click",
                    "browser_type", "browser_screenshot", "browser_scroll",
                    "browser_run_script"}

\* A call without a page name does, and answers, what the same call with
\* page "default" does, whatever fails and whatever the page does.
SameAsDefault(tools) ==
    (call.phase = "pending" /\ Falsy(call.args.page) /\ call.tool \in tools)
    => \A f \in Faults : \A env \in EnvFor(call.tool) :
          HandleToolCall(World(McpSession), call.tool, call.args, f, env)
          = HandleToolCall(World(McpSession), call.tool,
                           [call.args EXCEPT !.page = "default"], f, env)

\* C16 (as stated): every tool call that supplies no page name, a
\* browser_close_page call included, targets the page named "default".
C16_EveryToolDefaults == SameAsDefault(DefaultingTools \cup {"browser_close_page"})

\* C16 (amended): a call of a tool other than browser_close_page that supplies
\* no page name targets the page named "default"; browser_close_page has no
\* default and fails with "page is required", closing nothing.
C16_NoPageIsDefault ==
    /\ SameAsDefault(DefaultingTools)
    /\ (Done /\ call.tool = "browser_close_page" /\ Falsy(call.args.page))
         => /\ last.result.content = <<Text(<<"Error: ", "page is required">>)>>
            /\ last.ops = <<>>

C16_Witness ==
    /\ Done /\ call.tool = "browser_navigate"
    /\ call.args.page = Undefined
    /\ ~last.threw
    /\ Registered(registry, "default")
    /\ ~Registered(registry, "main")
    /\ snapshot["default"] # <<>>

\* C17: the text returned for a call that failed because the connection was
\* lost tells that failure apart from a missing page: it is not the 'page
\* not found' text.
C17_LostConnectionTold ==
    [][(Handled /\ last'.threw /\ browser'[McpSession] = "disconnected")
       => last'.result.content
            # <<Text(<<"Error: ">> \o NotFoundMessage(PageName(call.args)))>>]_vars

\* C18: a script run through browser_run_script has `refs` bound in its
\* scope as well as `page`: a script that names refs does not fail for refs
\* being undefined.
C18_RefsBound ==
    [][(Handled /\ call.tool = "browser_run_script"
          /\ "refs" \in NamesUsed(call.args.script))
       => last'.result.content # <<Text(<<"Error: ", "refs", " is not defined">>)>>]_vars

\* The page name a call operates on.
Operand(c) == IF c.tool = "browser_close_page" THEN c.args.page ELSE PageName(c.args)

\* C19: a tool call on one page name leaves every other page as it was: the
\* registry entry (targetId) of another name, its page and document, and its
\* current snapshot are unchanged, so the refs issued for it resolve as before.
C19_OtherPagesUntouched ==
    [][Handled
       => \A b \in Names \ {Operand(call)} :
            /\ snapshot'[b] = snapshot[b]
            /\ superseded'[b] = superseded[b]
            /\ Registered(registry', b) = Registered(registry, b)
            /\ Registered(registry, b)
                 => /\ TargetOf(registry', b) = TargetOf(registry, b)
                    /\ (TargetOf(registry, b) \in openPages')
                         = (TargetOf(registry, b) \in openPages)
                    /\ elems'[TargetOf(registry, b)] = elems[TargetOf(registry, b)]
            /\ \A ref \in Refs : RefIndex(snapshot'[b], ref) = RefIndex(snapshot[b], ref)]_vars

C19_Witness ==
    /\ Done /\ call.tool = "browser_close_page" /\ call.args.page = "main"
    /\ ~last.threw
    /\ ~Registered(registry, "main")
    /\ Registered(registry, "default")
    /\ snapshot["default"] # <<>>
    /\ TargetOf(registry, "default") \in openPages

ActingTools == {"browser_navigate", "browser_click", "browser_type", "browser_scroll"}
WaitingTools == ActingTools \ {"browser_type"}
ActionOf(tool) ==
    CASE tool = "browser_navigate" -> {"goto"}
      [] tool = "browser_click" -> {"click"}
      [] tool = "browser_type" -> {"fill", "type"}
      [] tool = "browser_scroll" -> {"wheel"}

\* The last Len(tail) items of the text are the tail.
EndsWith(text, tail) ==
    /\ Len(text) >= Len(tail)
    /\ SubSeq(text, Len(text) - Len(tail) + 1, Len(text)) = tail

\* C20: in a successful browser_navigate, browser_click, browser_type or
\* browser_scroll the one snapshot is the last operation, taken after the
\* action and after the page-load wait where there is one; the snapshot text
\* of the response is the page's current snapshot when the call returns, and
\* every ref it shows resolves to an element in the world the call leaves.
C20_SnapshotLastAndCurrent ==
    [][(Handled /\ call.tool \in ActingTools /\ ~last'.threw)
       => LET ops == last'.ops
              n == Len(ops)
              pageName == PageName(call.args)
              current == snapshot'[pageName]
          IN /\ n > 0 /\ ops[n] = "getAISnapshot"
             /\ \A j \in 1 .. n - 1 : ops[j] # "getAISnapshot"
             /\ \E i \in 1 .. n - 1 :
                  /\ ops[i] \in ActionOf(call.tool)
                  /\ call.tool \in WaitingTools
                       => \E j \in i + 1 .. n - 1 : ops[j] = "waitForPageLoad"
                  /\ \A j \in 1 .. n : ops[j] = "waitForPageLoad" => i < j /\ j < n
             /\ Len(last'.result.content) = 1
             /\ last'.result.content[1].type = "text"
             /\ EndsWith(last'.result.content[1].text, SnapshotText(current))
             /\ current = RefMapOf(elems'[TargetOf(registry', pageName)])
             /\ \A i \in DOMAIN current :
                  LET e == SelectSnapshotRef(WorldNext(McpSession), pageName,
                                             RefStr[i], NoFault)
                  IN ~e.threw /\ e.val # NoElement]_vars

C20_Witness ==
    /\ Done /\ call.tool = "browser_click" /\ ~last.threw
    /\ snapshot[PageName(call.args)] # <<>>
    /\ superseded[PageName(call.args)] # <<>>
    /\ EndsWith(last.result.content[1].text,
                SnapshotText(snapshot[PageName(call.args)]))

\* The required argument a call lacks, or the tool name when no case of the
\* switch handles it; <<>> for a call that passes validation.
Lacking(c) ==
    CASE c.tool = "browser_navigate" /\ Falsy(c.args.url) -> <<"url is required">>
      [] c.tool = "browser_click" /\ Falsy(c.args.ref) -> <<"ref is required">>
      [] c.tool = "browser_type" /\ Falsy(c.args.ref) -> <<"ref is required">>
      [] c.tool = "browser_type" /\ Falsy(c.args.text) -> <<"text is required">>
      [] c.tool = "browser_scroll" /\ Falsy(c.args.direction) -> <<"direction is required">>
      [] c.tool = "browser_run_script" /\ Falsy(c.args.script) -> <<"script is required">>
      [] c.tool = "browser_close_page" /\ Falsy(c.args.page) -> <<"page is required">>
      [] c.tool = "browser_unknown" -> <<"Unknown tool: ", c.tool>>
      [] OTHER -> <<>>

\* C21: a call rejected for a missing required argument or an unknown tool
\* name invokes no client operation: the log of operations is empty, and the
\* registry, the pages, the snapshots and the connection are as before; the
\* result is the error text of the rejection.
C21_RejectedCallsTouchNothing ==
    [][(Handled /\ Lacking(call) # <<>>)
       => /\ last'.ops = <<>>
          /\ UNCHANGED world
          /\ last'.threw
          /\ last'.result.content = <<Text(<<"Error: ">> \o Lacking(call))>>]_vars

C21_Witness ==
    /\ Done /\ call.tool = "browser_run_script" /\ Falsy(call.args.script)
    /\ call.args.page = "main"
    /\ ~Registered(registry, "main")
    /\ Registered(registry, "default")
    /\ last.ops = <<>>
    /\ last.result.content = <<Text(<<"Error: ", "script is required">>)>>

\* The tools whose first client call is client.page / getAISnapshot.
CreatingTools == {"browser_snapshot", "browser_navigate", "browser_screenshot",
                  "browser_scroll", "browser_run_script"}
NonCreatingTools == {"browser_list_pages", "browser_close_page"}

\* The errors of the page request itself: fetch rejects, or !res.ok.
PageRequestFailures == {<<"fetch failed">>, <<"Failed to get page: ", "server error">>}

\* browser_list_pages and browser_close_page register no name.
NeverAdds ==
    (Handled /\ call.tool \in NonCreatingTools)
       => \A n \in Names : Registered(registry', n) => Registered(registry, n)

\* C22 (as stated): list and close never add a registry entry; a snapshot,
\* navigate, screenshot, scroll or run_script call that passes argument
\* validation leaves its page name registered.
C22_ValidatedCallRegisters ==
    [][/\ NeverAdds
       /\ (Handled /\ call.tool \in CreatingTools /\ Lacking(call) = <<>>)
            => Registered(registry', PageName(call.args))]_vars

\* C22 (amended): list and close never add a registry entry; a snapshot,
\* navigate, screenshot, scroll or run_script call that passes argument
\* validation leaves its page name registered whenever the page request is
\* answered, so after every successful call; the name stays unregistered only
\* when the page request itself fails, and then the registry is unchanged.
C22_AnsweredCallRegisters ==
    [][/\ NeverAdds
       /\ (Handled /\ call.tool \in CreatingTools /\ Lacking(call) = <<>>)
            => /\ ~last'.threw => Registered(registry', PageName(call.args))
               /\ ~Registered(registry', PageName(call.args))
                    => /\ last'.threw
                       /\ last'.err.message \in PageRequestFailures
                       /\ registry' = registry]_vars

C22_Witness ==
    /\ Done /\ call.tool = "browser_screenshot" /\ call.args.page = "main"
    /\ ~last.threw
    /\ registry = <<[name |-> "main", targetId |-> 1]>>
    /\ closed = {}
    /\ last.ops = <<"page", "screenshot">>

\* C23: a client session holds at most one live connection, and holds it in
\* its `browser` variable: no connection it opened is live and untracked, so
\* that disconnect() leaves none of them open.
C23_OneTrackedConnection ==
    /\ Cardinality(Live) <= 1
    /\ \A i \in Live : cached = i

\* The amount a scroll call supplies, 500 when it supplies none.
AmountAsked(args) == IF args.amount = <<>> THEN DefaultAmount ELSE args.amount[1]

\* C24: browser_scroll sends one vertical wheel delta of +amount for "down"
\* and -amount for "up", amount being the number supplied, 500 only when none
\* is supplied; the response reports that amount; a direction other than "up"
\* and "down" sends no wheel delta at all.
C24_ScrollsByAmount ==
    [][(Handled /\ call.tool = "browser_scroll" /\ ~Falsy(call.args.direction))
       => LET asked == AmountAsked(call.args)
              direction == call.args.direction
          IN /\ direction = "down" /\ "wheel" \in OpsOf(last')
                  => last'.wheel \in {<<>>, <<asked>>}
             /\ direction = "up" /\ "wheel" \in OpsOf(last')
                  => last'.wheel \in {<<>>, <<-asked>>}
             /\ direction \notin {"up", "down"} => last'.wheel = <<>>
             /\ ~last'.threw
                  => SubSeq(last'.result.content[1].text, 1, 6)
                       = <<"Scrolled ", direction, " ", ToString(asked), "px", "\n\n">>]_vars

====
